---- MODULE Spec2Model ----
(***************************************************************************)
(* Model of the WebScraper class of examples/typescript/web-scraper.ts:    *)
(* the SSRF guard validateUrl / validateIpAddress and fetchPage, which     *)
(* gates the HTTP client behind it.                                        *)
(*                                                                         *)
(* Text is modelled as sequences of one-character strings so that          *)
(* toLowerCase, startsWith and the URL parser's normalisation are          *)
(* computed, not assumed.  An IPv4 address in dotted-decimal form is kept  *)
(* as its four octets, which is what ip.split('.').map(Number) yields.     *)
(***************************************************************************)
EXTENDS Integers, Sequences, FiniteSets, TLC

VARIABLES
    pc,        \* position of fetchPage: "idle", "lookup", "get", "done"
    url,       \* argument of the running fetchPage call
    phase,     \* which validateUrl call of fetchPage: "none", "initial", "final"
    vurl,      \* argument of the most recent validateUrl call
    hostname,  \* validateUrl's local `hostname` while the lookup is awaited
    checks,    \* the checks the most recent validateUrl call has executed
    verdict,   \* how the most recent validateUrl call settled
    dns,       \* what lookup() gave the most recent validateUrl call
    allowed,   \* URLs for which validateUrl returned normally in this fetchPage
    requests,  \* URLs the HTTP client has sent a request to in this fetchPage
    outcome,   \* how fetchPage settled: "none", "returned", "thrown"
    memo,      \* one earlier validateUrl evaluation, kept for comparison
    \* APIClient.makeRequest
    apc,         \* position of makeRequest: "idle", "await", "sleep", "done"
    maxRetries,  \* this.maxRetries
    acceptAll,   \* the client resolves every status, not only 2xx
    attempt,     \* the loop counter
    response,    \* the local `response`: has, status, from (which attempt)
    lastError,   \* the local `lastError`: the attempt whose error it holds
    sent,        \* requests issued by this call
    inflight,    \* requests issued and not yet settled
    attempts,    \* how each settled attempt of this call ended
    waits,       \* the arguments of sleep() in this call, in order
    result,      \* how makeRequest settled
    \* DataProcessor.aggregateData
    agpc,        \* "idle", "loaded", "aggregated"
    data,        \* this.data
    aggArgs,     \* the arguments of the aggregateData call
    groups,      \* the Map `groups`, in insertion order
    aggResult,   \* what aggregateData returned
    \* validateIpAddress on its own
    ipArg,       \* the address it was last called with
    ipLinkLocal, \* what isLinkLocal returned for it
    ipVerdict,   \* the reason it threw with, PUBLIC when it returned
    \* rateLimited
    minIntervalMs, \* the decorator's argument, 0 before it is applied
    lastCallTime,  \* the closure variable
    now,           \* Date.now()
    calls,         \* the calls of the decorated method
    starts         \* when originalMethod was invoked, in order

scraperVars == <<pc, url, phase, vurl, hostname, checks, verdict, dns,
                 allowed, requests, outcome>>

apiVars == <<apc, maxRetries, acceptAll, attempt, response, lastError, sent,
             inflight, attempts, waits, result>>

aggVars == <<agpc, data, aggArgs, groups, aggResult>>

ipVars == <<ipArg, ipLinkLocal, ipVerdict>>

rateVars == <<minIntervalMs, lastCallTime, now, calls, starts>>

vars == <<scraperVars, memo, apiVars, aggVars, ipVars, rateVars>>

\* what the actions of the scraper leave alone
notScraper == <<memo, apiVars, aggVars, ipVars, rateVars>>

\* what the actions of the API client leave alone
notApi == <<scraperVars, memo, aggVars, ipVars, rateVars>>

\* what the actions of the data processor leave alone
notAgg == <<scraperVars, memo, apiVars, ipVars, rateVars>>

\* what remembering an evaluation leaves alone
notMemo == <<scraperVars, apiVars, aggVars, ipVars, rateVars>>

\* what a call of validateIpAddress on its own leaves alone
notIp == <<scraperVars, memo, apiVars, aggVars, rateVars>>

\* what the rate limiter leaves alone
notRate == <<scraperVars, memo, apiVars, aggVars, ipVars>>

(***************************************************************************)
(* Bounds and program constants                                            *)
(***************************************************************************)
\* longest DNS answer list the resolver hands back
MaxAnswers == 2

\* largest maxRetries a client is constructed with
MaxRetriesBound == 3

\* most rows of a loaded data set
MaxRows == 2

\* most calls of a decorated method
MaxCalls == 3

\* largest minIntervalMs a method is decorated with
MaxInterval == 2

\* how far the clock runs
MaxTicks == 4

MAX_REDIRECTS == 5

(***************************************************************************)
(* Text helpers                                                            *)
(***************************************************************************)
UpperChars == <<"A","B","C","D","E","F","G","H","I","J","K","L","M",
                "N","O","P","Q","R","S","T","U","V","W","X","Y","Z">>
LowerChars == <<"a","b","c","d","e","f","g","h","i","j","k","l","m",
                "n","o","p","q","r","s","t","u","v","w","x","y","z">>

ToLowerChar(c) ==
    IF \E i \in 1..26 : UpperChars[i] = c
    THEN LowerChars[CHOOSE i \in 1..26 : UpperChars[i] = c]
    ELSE c

toLowerCase(s) == [i \in 1..Len(s) |-> ToLowerChar(s[i])]

startsWith(s, p) == Len(s) >= Len(p) /\ SubSeq(s, 1, Len(p)) = p

substring(s, from, to) ==
    SubSeq(s, from + 1, IF to > Len(s) THEN Len(s) ELSE to)

HexDigits == <<"0","1","2","3","4","5","6","7","8","9",
               "a","b","c","d","e","f">>

IsHexChar(c) == \E i \in 1..16 : HexDigits[i] = ToLowerChar(c)

HexVal(c) == (CHOOSE i \in 1..16 : HexDigits[i] = ToLowerChar(c)) - 1

\* parseInt(s, 16): the longest hexadecimal prefix of s; NaN is -1
RECURSIVE parseHexFrom(_, _, _)
parseHexFrom(s, i, acc) ==
    IF i > Len(s) \/ ~IsHexChar(s[i]) THEN acc
    ELSE parseHexFrom(s, i + 1, acc * 16 + HexVal(s[i]))

NaN == -1

parseInt16(s) ==
    IF Len(s) = 0 \/ ~IsHexChar(s[1]) THEN NaN ELSE parseHexFrom(s, 1, 0)

\* (x & 0xfe) for x below 256; NaN converts to 0 under a bitwise operator
AndFE(x) == IF x = NaN THEN 0 ELSE ((x % 256) \div 2) * 2

(***************************************************************************)
(* Hosts, addresses and URLs                                               *)
(* kind: "empty" no host, "name" a DNS name, "v4" dotted decimal IPv4,     *)
(*       "v6" an IPv6 address, "br6" an IPv6 address inside [ ]            *)
(***************************************************************************)
NoText == << >>

Name(t)    == [kind |-> "name", parts |-> NoText, text |-> t]
V4(a,b,c,d) == [kind |-> "v4", parts |-> <<a, b, c, d>>, text |-> NoText]
V6(t)      == [kind |-> "v6", parts |-> NoText, text |-> t]
Br6(t)     == [kind |-> "br6", parts |-> NoText, text |-> t]
EmptyHost  == [kind |-> "empty", parts |-> NoText, text |-> NoText]

Url(s, h)  == [scheme |-> s, host |-> h]

\* the argument "not a url": no scheme, nothing the URL parser accepts
NotAUrl == Url(NoText, EmptyHost)

http_   == <<"h","t","t","p">>
https_  == <<"h","t","t","p","s">>
ftp_    == <<"f","t","p">>
data_   == <<"d","a","t","a">>

localhost_ == <<"l","o","c","a","l","h","o","s","t">>
localdomain_ == <<".","l","o","c","a","l","d","o","m","a","i","n">>

loopback6_ == <<":",":","1">>

(***************************************************************************)
(* new URL(urlString), as far as validateUrl reads the result              *)
(***************************************************************************)
\* the schemes the URL standard calls special and that need a host
SpecialSchemes == {http_, https_, ftp_}

\* a parser that accepts every string
ParseFailedDropped(u) == FALSE

\* new URL(urlString) throws: no scheme at all, or a special scheme
\* without a host
ParseFailed(u) ==
    \/ u.scheme = NoText
    \/ toLowerCase(u.scheme) \in SpecialSchemes /\ u.host.kind = "empty"

\* parsedUrl.protocol: the scheme in lower case, followed by ":"
protocol(u) == toLowerCase(u.scheme) \o <<":">>

\* parsedUrl.hostname: lower case for a special scheme, an IPv6 literal
\* keeps its brackets
hostnameOf(u) ==
    CASE u.host.kind = "v6"   -> Br6(toLowerCase(u.host.text))
      [] u.host.kind = "name" ->
            IF toLowerCase(u.scheme) \in SpecialSchemes
            THEN Name(toLowerCase(u.host.text)) ELSE u.host
      [] OTHER -> u.host

\* net.isIP: 4, 6, or 0 for anything else (a bracketed address included)
isIP(h) ==
    CASE h.kind = "v4" -> 4
      [] h.kind = "v6" -> 6
      [] OTHER -> 0

\* ip.includes(':')
includesColon(ip) == ip.kind \in {"v6", "br6"}

(***************************************************************************)
(* Verdicts: ALLOW, or the reason of the Error that validateUrl throws     *)
(***************************************************************************)
PENDING == "PENDING"
ALLOW == "ALLOW"
INVALID_URL == "INVALID_URL"
DISALLOWED_SCHEME == "DISALLOWED_SCHEME"
MISSING_HOST == "MISSING_HOST"
BLOCKED_HOSTNAME == "BLOCKED_HOSTNAME"
CLOUD_METADATA_ENDPOINT == "CLOUD_METADATA_ENDPOINT"
LOOPBACK == "LOOPBACK"
LINK_LOCAL == "LINK_LOCAL"
PRIVATE_RANGE == "PRIVATE_RANGE"
\* the rejection of lookup(), which is not one of validateUrl's reasons
DNS_FAILURE == "DNS_FAILURE"
\* validateIpAddress returned without throwing
PUBLIC == "PUBLIC"

AddressReasons == {CLOUD_METADATA_ENDPOINT, LOOPBACK, LINK_LOCAL, PRIVATE_RANGE}

(***************************************************************************)
(* validateIpAddress and its three range tests                             *)
(***************************************************************************)
MetadataAddress == V4(169, 254, 169, 254)

isLoopback(ip) ==
    IF includesColon(ip)
    THEN ip.kind = "v6" /\ ip.text = loopback6_
    ELSE ip.parts[1] = 127

isLinkLocal(ip) ==
    IF includesColon(ip)
    THEN startsWith(toLowerCase(ip.text), <<"f","e","8","0",":">>)
    ELSE ip.parts[1] = 169 /\ ip.parts[2] = 254

\* the 172.16.0.0/12 test without its upper end
isPrivateOpenEnded(ip) ==
    IF includesColon(ip)
    THEN AndFE(parseInt16(substring(ip.text, 0, 2))) = 252
    ELSE \/ ip.parts[1] = 10
         \/ ip.parts[1] = 172 /\ ip.parts[2] >= 16
         \/ ip.parts[1] = 192 /\ ip.parts[2] = 168

isPrivate(ip) ==
    IF includesColon(ip)
    THEN AndFE(parseInt16(substring(ip.text, 0, 2))) = 252
    ELSE \/ ip.parts[1] = 10
         \/ ip.parts[1] = 172 /\ ip.parts[2] >= 16 /\ ip.parts[2] <= 31
         \/ ip.parts[1] = 192 /\ ip.parts[2] = 168

\* the same tests with the range test ahead of the exact-address test
validateIpAddressRangeFirst(ip) ==
    CASE isLoopback(ip)       -> LOOPBACK
      [] isLinkLocal(ip)      -> LINK_LOCAL
      [] ip = MetadataAddress -> CLOUD_METADATA_ENDPOINT
      [] isPrivate(ip)        -> PRIVATE_RANGE
      [] OTHER                -> PUBLIC

\* the reason validateIpAddress throws with, PUBLIC when it returns
validateIpAddress(ip) ==
    IF ip = MetadataAddress THEN CLOUD_METADATA_ENDPOINT
    ELSE IF isLoopback(ip) THEN LOOPBACK
    ELSE IF isLinkLocal(ip) THEN LINK_LOCAL
    ELSE IF isPrivate(ip) THEN PRIVATE_RANGE
    ELSE PUBLIC

(***************************************************************************)
(* validateUrl                                                             *)
(***************************************************************************)
\* ['http:', 'https:'] with one scheme too many
allowedProtocolsWide == {http_ \o <<":">>, https_ \o <<":">>, ftp_ \o <<":">>}

allowedProtocols == {http_ \o <<":">>, https_ \o <<":">>}

\* the denylist without its second entry
localhostNamesShort == {localhost_}

localhostNames == {localhost_, localhost_ \o localdomain_}

NoDns == [state |-> "none", addrs |-> << >>]

\* validateUrl with the denylist consulted ahead of the scheme
validateUrlSyncHostFirst(u) ==
    LET h == hostnameOf(u) IN
    IF ParseFailed(u)
    THEN [verdict |-> INVALID_URL, checks |-> {"parse"}, hostname |-> EmptyHost]
    ELSE IF toLowerCase(h.text) \in localhostNames
    THEN [verdict |-> BLOCKED_HOSTNAME,
          checks |-> {"parse", "host", "denylist"}, hostname |-> h]
    ELSE IF protocol(u) \notin allowedProtocols
    THEN [verdict |-> DISALLOWED_SCHEME, checks |-> {"parse", "scheme"},
          hostname |-> EmptyHost]
    ELSE IF h.kind = "empty"
    THEN [verdict |-> MISSING_HOST, checks |-> {"parse", "scheme", "host"},
          hostname |-> h]
    ELSE IF isIP(h) # 0 /\ validateIpAddress(h) # PUBLIC
    THEN [verdict |-> validateIpAddress(h),
          checks |-> {"parse", "scheme", "host", "denylist", "literal"},
          hostname |-> h]
    ELSE [verdict |-> PENDING,
          checks |-> {"parse", "scheme", "host", "denylist", "dns"}
                     \cup (IF isIP(h) # 0 THEN {"literal"} ELSE {}),
          hostname |-> h]

\* validateUrl up to its first await: the checks it executed, and either
\* the reason it threw with or PENDING when it went on to call lookup()
validateUrlSync(u) ==
    LET h == hostnameOf(u) IN
    IF ParseFailed(u)
    THEN [verdict |-> INVALID_URL, checks |-> {"parse"}, hostname |-> EmptyHost]
    ELSE IF protocol(u) \notin allowedProtocols
    THEN [verdict |-> DISALLOWED_SCHEME, checks |-> {"parse", "scheme"},
          hostname |-> EmptyHost]
    ELSE IF h.kind = "empty"
    THEN [verdict |-> MISSING_HOST, checks |-> {"parse", "scheme", "host"},
          hostname |-> h]
    ELSE IF toLowerCase(h.text) \in localhostNames
    THEN [verdict |-> BLOCKED_HOSTNAME,
          checks |-> {"parse", "scheme", "host", "denylist"}, hostname |-> h]
    ELSE IF isIP(h) # 0 /\ validateIpAddress(h) # PUBLIC
    THEN [verdict |-> validateIpAddress(h),
          checks |-> {"parse", "scheme", "host", "denylist", "literal"},
          hostname |-> h]
    ELSE [verdict |-> PENDING,
          checks |-> {"parse", "scheme", "host", "denylist", "dns"}
                     \cup (IF isIP(h) # 0 THEN {"literal"} ELSE {}),
          hostname |-> h]

\* the reason of the first address of the answer that validateIpAddress
\* throws for, PUBLIC when the loop runs to its end
RECURSIVE firstThrow(_)
firstThrow(addrs) ==
    IF addrs = << >> THEN PUBLIC
    ELSE IF validateIpAddress(Head(addrs)) # PUBLIC
         THEN validateIpAddress(Head(addrs))
         ELSE firstThrow(Tail(addrs))

\* a catch block that passes the error on
catchRethrow(e) == e

\* the catch block of the lookup: logs, and validateUrl returns normally
catchLookup(e) == ALLOW

\* the try block around lookup() and the loop over its answer
lookupBlock(d) ==
    IF d.state = "failed" THEN catchLookup(DNS_FAILURE)
    ELSE IF firstThrow(d.addrs) # PUBLIC THEN catchLookup(firstThrow(d.addrs))
    ELSE ALLOW

(***************************************************************************)
(* fetchPage                                                               *)
(***************************************************************************)
\* a validateUrl call whose rejection is not waited for
awaitThrowsIgnored(v) == FALSE

\* `await this.validateUrl(...)` throws when validateUrl rejected
awaitThrows(v) == v # ALLOW

\* what fetchPage does once the validateUrl call of phase ph on target
\* has settled with v
afterValidate(ph, v, target, reqs, alw) ==
    LET alw2 == IF v = ALLOW THEN alw \cup {target} ELSE alw IN
    IF awaitThrows(v)
    THEN [pc |-> "done", requests |-> reqs, allowed |-> alw2,
          outcome |-> "thrown"]
    ELSE IF ph = "initial"
    THEN [pc |-> "get", requests |-> Append(reqs, target), allowed |-> alw2,
          outcome |-> "none"]
    ELSE [pc |-> "done", requests |-> reqs, allowed |-> alw2,
          outcome |-> "returned"]

(***************************************************************************)
(* The inputs the model draws from                                         *)
(***************************************************************************)
Schemes ==
    {http_, <<"H","T","T","P">>, https_, <<"H","t","t","p","S">>,
     ftp_, <<"F","T","P">>, data_}

publicName_ == <<"a",".","i","o">>

Names ==
    {localhost_, <<"L","O","C","A","L","H","O","S","T">>,
     <<"L","o","c","a","l","H","o","s","t">>,
     localhost_ \o localdomain_,
     <<"L","o","c","a","l","h","o","s","t">> \o
         <<".","L","O","C","A","L","d","o","m","a","i","n">>,
     publicName_, <<"A",".","I","O">>}

PublicAddress == V4(93, 184, 216, 34)

\* IPv4 literals around every boundary of the ranges that are tested
V4Hosts ==
    {V4(a, b, t[1], t[2]) :
        a \in {8, 10, 11, 127, 169, 172, 192},
        b \in {0, 15, 16, 31, 32, 168, 254},
        t \in {<<0, 1>>, <<169, 254>>}}

V6Hosts ==
    {V6(loopback6_), V6(<<"2","6","0","6",":",":","1">>)}

CoreHosts ==
    {Name(n) : n \in Names} \cup V6Hosts
        \cup {EmptyHost, V4(127, 0, 0, 1), PublicAddress}

Urls ==
    {NotAUrl} \cup {Url(s, h) : s \in Schemes, h \in CoreHosts}
              \cup {Url(http_, h) : h \in V4Hosts}

\* where a response may redirect to
RedirectTargets == {Url(http_, MetadataAddress), Url(http_, Name(publicName_))}

\* the addresses a resolver may answer with
AddrPool ==
    {PublicAddress, V4(127, 0, 0, 1), V4(192, 168, 1, 1), V4(169, 254, 1, 1),
     MetadataAddress, V6(loopback6_)}

RECURSIVE SeqsUpTo(_, _)
SeqsUpTo(S, n) ==
    IF n = 0 THEN {<< >>}
    ELSE LET shorter == SeqsUpTo(S, n - 1) IN
         shorter \cup {Append(q, x) : q \in shorter, x \in S}

\* lookup(hostname, {all: true}) of an address returns that address
\* without asking a resolver; of anything else, whatever the resolver says
Answers(h) ==
    IF isIP(h) # 0 THEN {<<h>>}
    ELSE SeqsUpTo(AddrPool, MaxAnswers) \ {<< >>}

(***************************************************************************)
(* Actions                                                                 *)
(***************************************************************************)
\* statusCode of an APIError constructed with undefined
Undefined == -1

\* `response` while it is null
NoResponse == [has |-> FALSE, status |-> Undefined, from |-> 0]

NoResult ==
    [kind |-> "none", statusCode |-> Undefined, success |-> FALSE,
     about |-> 0, line |-> 0]

\* a call that has not been made
NoCall == [pc |-> "new", self |-> 0, wake |-> 0]

\* Date.now() when the decorator is applied: later than any interval after
\* time 0
Epoch == MaxInterval + 1

NoArgs == [groupBy |-> << >>, func |-> "none"]

NoMemo ==
    [set |-> FALSE, ph |-> "none", u |-> NotAUrl, d |-> NoDns, v |-> PENDING]

Init ==
    /\ pc = "idle"
    /\ url = NotAUrl
    /\ phase = "none"
    /\ vurl = NotAUrl
    /\ hostname = EmptyHost
    /\ checks = {}
    /\ verdict = PENDING
    /\ dns = NoDns
    /\ allowed = {}
    /\ requests = << >>
    /\ outcome = "none"
    /\ memo = NoMemo
    /\ apc = "idle"
    /\ maxRetries = 3
    /\ acceptAll = FALSE
    /\ attempt = 0
    /\ response = NoResponse
    /\ lastError = 0
    /\ sent = 0
    /\ inflight = 0
    /\ attempts = << >>
    /\ waits = << >>
    /\ result = NoResult
    /\ agpc = "idle"
    /\ data = << >>
    /\ aggArgs = NoArgs
    /\ groups = << >>
    /\ aggResult = << >>
    /\ ipArg = EmptyHost
    /\ ipLinkLocal = FALSE
    /\ ipVerdict = PENDING
    /\ minIntervalMs = 0
    /\ lastCallTime = 0
    /\ now = Epoch
    /\ calls = [c \in 1..MaxCalls |-> NoCall]
    /\ starts = << >>

\* a validateUrl whose call on the final URL trusts the host it is given
CallValidateLenientFinal(ph, u, reqs, alw) ==
    LET r == IF ph = "final" /\ validateUrlSync(u).verdict \in AddressReasons
             THEN [verdict |-> PENDING,
                   checks |-> validateUrlSync(u).checks \cup {"dns"},
                   hostname |-> validateUrlSync(u).hostname]
             ELSE validateUrlSync(u)
        k == afterValidate(ph, r.verdict, u, reqs, alw) IN
    /\ phase' = ph
    /\ vurl' = u
    /\ hostname' = r.hostname
    /\ checks' = r.checks
    /\ verdict' = r.verdict
    /\ dns' = NoDns
    /\ IF r.verdict = PENDING
       THEN /\ pc' = "lookup"
            /\ requests' = reqs
            /\ allowed' = alw
            /\ outcome' = "none"
       ELSE /\ pc' = k.pc
            /\ requests' = k.requests
            /\ allowed' = k.allowed
            /\ outcome' = k.outcome

\* validateUrl(u) is called in phase ph and runs up to its first await
CallValidate(ph, u, reqs, alw) ==
    LET r == validateUrlSync(u)
        k == afterValidate(ph, r.verdict, u, reqs, alw) IN
    /\ phase' = ph
    /\ vurl' = u
    /\ hostname' = r.hostname
    /\ checks' = r.checks
    /\ verdict' = r.verdict
    /\ dns' = NoDns
    /\ IF r.verdict = PENDING
       THEN /\ pc' = "lookup"
            /\ requests' = reqs
            /\ allowed' = alw
            /\ outcome' = "none"
       ELSE /\ pc' = k.pc
            /\ requests' = k.requests
            /\ allowed' = k.allowed
            /\ outcome' = k.outcome

\* fetchPage(u) is called
FetchPage(u) ==
    /\ pc = "idle"
    /\ UNCHANGED notScraper
    /\ url' = u
    /\ CallValidate("initial", u, << >>, {})

\* the awaited lookup settles with d; validateUrl finishes and fetchPage
\* goes on
LookupSettles(d) ==
    LET v == lookupBlock(d)
        k == afterValidate(phase, v, vurl, requests, allowed) IN
    /\ dns' = d
    /\ verdict' = v
    /\ pc' = k.pc
    /\ requests' = k.requests
    /\ allowed' = k.allowed
    /\ outcome' = k.outcome
    /\ UNCHANGED <<url, phase, vurl, hostname, checks>>
    /\ UNCHANGED notScraper

LookupResolves ==
    /\ pc = "lookup"
    /\ \E a \in Answers(hostname) :
          LookupSettles([state |-> "resolved", addrs |-> a])

LookupFails ==
    /\ pc = "lookup"
    /\ isIP(hostname) = 0
    /\ LookupSettles([state |-> "failed", addrs |-> << >>])

\* the server answers the last request with a redirect and the HTTP client,
\* configured with maxRedirects, follows it
Redirect ==
    /\ pc = "get"
    /\ UNCHANGED notScraper
    /\ Len(requests) - 1 < MAX_REDIRECTS
    /\ \E t \in RedirectTargets : requests' = Append(requests, t)
    /\ UNCHANGED <<pc, url, phase, vurl, hostname, checks, verdict, dns,
                   allowed, outcome>>

\* one redirect more than maxRedirects: the client rejects with its own
\* error, which fetchPage wraps and throws
TooManyRedirects ==
    /\ pc = "get"
    /\ UNCHANGED notScraper
    /\ Len(requests) - 1 = MAX_REDIRECTS
    /\ pc' = "done"
    /\ outcome' = "thrown"
    /\ UNCHANGED <<url, phase, vurl, hostname, checks, verdict, dns, allowed,
                   requests>>

\* a status outside 2xx or a transport error: fetchPage throws
RespondError ==
    /\ pc = "get"
    /\ UNCHANGED notScraper
    /\ pc' = "done"
    /\ outcome' = "thrown"
    /\ UNCHANGED <<url, phase, vurl, hostname, checks, verdict, dns, allowed,
                   requests>>

\* a 2xx response from the last target: validate the final URL when it
\* differs from the one asked for, return the body otherwise
Respond ==
    /\ pc = "get"
    /\ UNCHANGED notScraper
    /\ LET responseUrl == requests[Len(requests)] IN
       IF responseUrl # url
       THEN /\ CallValidate("final", responseUrl, requests, allowed)
            /\ UNCHANGED url
       ELSE /\ pc' = "done"
            /\ outcome' = "returned"
            /\ UNCHANGED <<url, phase, vurl, hostname, checks, verdict, dns,
                           allowed, requests>>

\* the caller takes the result; the scraper is ready for the next call
Return ==
    /\ pc = "done"
    /\ UNCHANGED notScraper
    /\ pc' = "idle"
    /\ url' = NotAUrl
    /\ phase' = "none"
    /\ vurl' = NotAUrl
    /\ hostname' = EmptyHost
    /\ checks' = {}
    /\ verdict' = PENDING
    /\ dns' = NoDns
    /\ allowed' = {}
    /\ requests' = << >>
    /\ outcome' = "none"

Next ==
    \/ \E u \in Urls : FetchPage(u)
    \/ LookupFails
    \/ LookupResolves
    \/ Redirect
    \/ TooManyRedirects
    \/ RespondError
    \/ Respond
    \/ Return

Spec == Init /\ [][Next]_vars

(***************************************************************************)
(* APIClient.makeRequest of examples/typescript/api-client.ts              *)
(***************************************************************************)
Statuses == {199, 200, 299, 300, 404, 499, 500, 503}

RECURSIVE Pow2(_)
Pow2(n) == IF n = 0 THEN 1 ELSE 2 * Pow2(n - 1)

\* a backoff that starts one step late
waitTimeLate(a) == Pow2(a + 1) * 1000

\* Math.pow(2, attempt) * 1000
waitTime(a) == Pow2(a) * 1000

\* a loop that runs once more
loopContinuesInclusive(a, n) == a <= n

\* the loop condition attempt < this.maxRetries
loopContinues(a, n) == a < n

\* a threshold that also retries client errors
noRetryBelow400(status) == status < 400

\* response.status < 500: success or client error, no retry
noRetry(status) == status < 500

\* response.status >= 200 && response.status < 300
isSuccess(status) == status >= 200 /\ status < 300

\* the code after the loop without its `if (!success) throw`
afterLoopNoThrow(resp) ==
    IF ~resp.has
    THEN [kind |-> "thrown", statusCode |-> Undefined, success |-> FALSE,
          about |-> 0, line |-> 153]
    ELSE [kind |-> "returned", statusCode |-> resp.status,
          success |-> isSuccess(resp.status), about |-> resp.from,
          line |-> 172]

\* the code after the loop
afterLoop(resp) ==
    IF ~resp.has
    THEN [kind |-> "thrown", statusCode |-> Undefined, success |-> FALSE,
          about |-> 0, line |-> 153]
    ELSE IF ~isSuccess(resp.status)
    THEN [kind |-> "thrown", statusCode |-> resp.status, success |-> FALSE,
          about |-> resp.from, line |-> 169]
    ELSE [kind |-> "returned", statusCode |-> resp.status,
          success |-> isSuccess(resp.status), about |-> resp.from,
          line |-> 172]

\* the head of the loop with counter a: the next request, or the code
\* after the loop
loopHead(a, n, resp) ==
    IF loopContinues(a, n)
    THEN [apc |-> "await", attempt |-> a, wait |-> << >>, sends |-> 1,
          result |-> NoResult]
    ELSE [apc |-> "done", attempt |-> a, wait |-> << >>, sends |-> 0,
          result |-> afterLoop(resp)]

\* the end of iteration a when it did not break: back off and go round
\* again, or on the last attempt give up (thrown = TRUE, the catch block) or
\* fall out of the loop (the try block)
retryOrGiveUp(a, n, resp, thrown) ==
    IF a < n - 1
    THEN [apc |-> "sleep", attempt |-> a, wait |-> <<waitTime(a)>>,
          sends |-> 0, result |-> NoResult]
    ELSE IF thrown
    THEN [apc |-> "done", attempt |-> a, wait |-> << >>, sends |-> 0,
          result |-> [kind |-> "thrown", statusCode |-> Undefined,
                      success |-> FALSE, about |-> a + 1, line |-> 147]]
    ELSE loopHead(a + 1, n, resp)

\* iteration a has a response: break, or retryOrGiveUp
onResponse(a, n, resp, thrown) ==
    IF noRetry(resp.status)
    THEN [apc |-> "done", attempt |-> a, wait |-> << >>, sends |-> 0,
          result |-> afterLoop(resp)]
    ELSE retryOrGiveUp(a, n, resp, thrown)

\* makeRequest moves on as k says, after `settled` requests have settled
Continue(k, settled) ==
    /\ apc' = k.apc
    /\ attempt' = k.attempt
    /\ waits' = waits \o k.wait
    /\ sent' = sent + k.sends
    /\ inflight' = inflight - settled + k.sends
    /\ result' = k.result

\* a client is constructed with maxRetries n and makeRequest is called
MakeRequest ==
    /\ apc = "idle"
    /\ \E n \in 0..MaxRetriesBound, lenient \in BOOLEAN :
          /\ maxRetries' = n
          /\ acceptAll' = lenient
          /\ Continue(loopHead(0, n, NoResponse), 0)
    /\ response' = NoResponse
    /\ lastError' = 0
    /\ attempts' = << >>
    /\ UNCHANGED notApi

\* client.request resolves with a response of status s
Resolve(s) ==
    /\ apc = "await"
    /\ acceptAll \/ isSuccess(s)
    /\ LET resp == [has |-> TRUE, status |-> s, from |-> attempt + 1] IN
       /\ response' = resp
       /\ Continue(onResponse(attempt, maxRetries, resp, FALSE), 1)
    /\ attempts' = Append(attempts,
                          [has |-> TRUE, status |-> s, threw |-> FALSE])
    /\ UNCHANGED <<maxRetries, acceptAll, lastError>>
    /\ UNCHANGED notApi

\* client.request rejects with an error that carries a response of status s
RejectWithResponse(s) ==
    /\ apc = "await"
    /\ ~acceptAll /\ ~isSuccess(s)
    /\ LET resp == [has |-> TRUE, status |-> s, from |-> attempt + 1] IN
       /\ response' = resp
       /\ Continue(onResponse(attempt, maxRetries, resp, TRUE), 1)
    /\ lastError' = attempt + 1
    /\ attempts' = Append(attempts,
                          [has |-> TRUE, status |-> s, threw |-> TRUE])
    /\ UNCHANGED <<maxRetries, acceptAll>>
    /\ UNCHANGED notApi

\* client.request rejects without a response: timeout, connection refused
RejectNoResponse ==
    /\ apc = "await"
    /\ Continue(retryOrGiveUp(attempt, maxRetries, response, TRUE), 1)
    /\ lastError' = attempt + 1
    /\ attempts' = Append(attempts,
                          [has |-> FALSE, status |-> Undefined,
                           threw |-> TRUE])
    /\ UNCHANGED <<maxRetries, acceptAll, response>>
    /\ UNCHANGED notApi

\* sleep() resolves: continue, attempt++, and the loop head
Wake ==
    /\ apc = "sleep"
    /\ Continue(loopHead(attempt + 1, maxRetries, response), 0)
    /\ UNCHANGED <<maxRetries, acceptAll, response, lastError, attempts>>
    /\ UNCHANGED notApi

\* the caller has the result; the next call may start
ApiReturn ==
    /\ apc = "done"
    /\ apc' = "idle"
    /\ maxRetries' = 3
    /\ acceptAll' = FALSE
    /\ attempt' = 0
    /\ response' = NoResponse
    /\ lastError' = 0
    /\ sent' = 0
    /\ inflight' = 0
    /\ attempts' = << >>
    /\ waits' = << >>
    /\ result' = NoResult
    /\ UNCHANGED notApi

NextApi ==
    \/ MakeRequest
    \/ \E s \in Statuses : Resolve(s)
    \/ \E s \in Statuses : RejectWithResponse(s)
    \/ RejectNoResponse
    \/ Wake
    \/ ApiReturn

SpecApi == Init /\ [][NextApi]_vars

(***************************************************************************)
(* DataProcessor.aggregateData of examples/typescript/web-scraper.ts       *)
(* A cell is a JavaScript value: t is "num", "str", "null", "undef" or     *)
(* "bool" (n is 1 for true, 0 for false).                                  *)
(***************************************************************************)
Num(n)  == [t |-> "num", n |-> n, s |-> NoText]
Str(s)  == [t |-> "str", n |-> 0, s |-> s]
Null    == [t |-> "null", n |-> 0, s |-> NoText]
Undef   == [t |-> "undef", n |-> 0, s |-> NoText]
Bool(b) == [t |-> "bool", n |-> IF b THEN 1 ELSE 0, s |-> NoText]

IsDigit(c) == \E i \in 1..10 : HexDigits[i] = c

\* the decimal digits of a natural number
RECURSIVE DecText(_)
DecText(n) ==
    IF n < 10 THEN <<HexDigits[n + 1]>>
    ELSE DecText(n \div 10) \o <<HexDigits[(n % 10) + 1]>>

\* the value of a sequence of decimal digits
RECURSIVE DecVal(_)
DecVal(s) ==
    IF s = << >> THEN 0
    ELSE DecVal(SubSeq(s, 1, Len(s) - 1)) * 10 + HexVal(s[Len(s)])

\* String.prototype.trim, for blanks
RECURSIVE trim(_)
trim(s) ==
    IF s # << >> /\ Head(s) = " " THEN trim(Tail(s))
    ELSE IF s # << >> /\ s[Len(s)] = " " THEN trim(SubSeq(s, 1, Len(s) - 1))
    ELSE s

\* a JavaScript number that is not NaN, and NaN
Finite(n) == [ok |-> TRUE, n |-> n]
NotANumber == [ok |-> FALSE, n |-> 0]

\* Number(v)
Number(v) ==
    CASE v.t = "num"   -> Finite(v.n)
      [] v.t = "bool"  -> Finite(v.n)
      [] v.t = "null"  -> Finite(0)
      [] v.t = "undef" -> NotANumber
      [] v.t = "str"   ->
            IF trim(v.s) = << >> THEN Finite(0)
            ELSE IF \A i \in 1..Len(trim(v.s)) : IsDigit(trim(v.s)[i])
            THEN Finite(DecVal(trim(v.s)))
            ELSE NotANumber

isNaN(x) == ~x.ok

\* the text Array.prototype.join uses for an element
toText(v) ==
    CASE v.t = "num"  -> DecText(v.n)
      [] v.t = "str"  -> v.s
      [] v.t = "bool" -> IF v.n = 1 THEN <<"t","r","u","e">>
                         ELSE <<"f","a","l","s","e">>
      [] OTHER        -> NoText

\* texts.join('|')
RECURSIVE join(_)
join(texts) ==
    IF texts = << >> THEN NoText
    ELSE IF Len(texts) = 1 THEN texts[1]
    ELSE texts[1] \o <<"|">> \o join(Tail(texts))

\* text.split('|')
RECURSIVE split(_)
split(text) ==
    IF \A i \in 1..Len(text) : text[i] # "|" THEN <<text>>
    ELSE LET k == CHOOSE i \in 1..Len(text) :
                     text[i] = "|" /\ \A j \in 1..(i - 1) : text[j] # "|" IN
         <<SubSeq(text, 1, k - 1)>> \o split(SubSeq(text, k + 1, Len(text)))

\* groupBy.map(col => row[col]).join('|')
keyOf(row, groupBy) ==
    join([i \in 1..Len(groupBy) |-> toText(row[groupBy[i]])])

\* the Map after rows i.. of the data have been added to gs; a group is its
\* key and the indices of its rows
RECURSIVE groupRows(_, _, _, _)
groupRows(rows, groupBy, i, gs) ==
    IF i > Len(rows) THEN gs
    ELSE LET key == keyOf(rows[i], groupBy) IN
         IF \E g \in 1..Len(gs) : gs[g].key = key
         THEN LET g == CHOOSE g \in 1..Len(gs) : gs[g].key = key IN
              groupRows(rows, groupBy, i + 1,
                        [gs EXCEPT ![g].rows = Append(@, i)])
         ELSE groupRows(rows, groupBy, i + 1,
                        Append(gs, [key |-> key, rows |-> <<i>>]))

\* an aggregate: a rational number n/d in lowest terms, or NaN, Infinity,
\* -Infinity
RECURSIVE Gcd(_, _)
Gcd(a, b) == IF b = 0 THEN a ELSE Gcd(b, a % b)

Ratio(n, d) ==
    IF n = 0 THEN [k |-> "num", n |-> 0, d |-> 1]
    ELSE [k |-> "num", n |-> n \div Gcd(n, d), d |-> d \div Gcd(n, d)]

AggNaN == [k |-> "nan", n |-> 0, d |-> 1]
Infinity == [k |-> "inf", n |-> 0, d |-> 1]
NegInfinity == [k |-> "ninf", n |-> 0, d |-> 1]

RECURSIVE SumSeq(_)
SumSeq(q) == IF q = << >> THEN 0 ELSE Head(q) + SumSeq(Tail(q))

SeqMin(q) == CHOOSE x \in {q[i] : i \in 1..Len(q)} :
                 \A i \in 1..Len(q) : x <= q[i]
SeqMax(q) == CHOOSE x \in {q[i] : i \in 1..Len(q)} :
                 \A i \in 1..Len(q) : x >= q[i]

\* the switch over func
reduce(func, values) ==
    CASE func = "sum"   -> Ratio(SumSeq(values), 1)
      [] func = "mean"  -> IF values = << >> THEN AggNaN
                           ELSE Ratio(SumSeq(values), Len(values))
      [] func = "count" -> Ratio(Len(values), 1)
      [] func = "min"   -> IF values = << >> THEN Infinity
                           ELSE Ratio(SeqMin(values), 1)
      [] func = "max"   -> IF values = << >> THEN NegInfinity
                           ELSE Ratio(SeqMax(values), 1)

\* rows.map(row => Number(row[col])).filter(v => !isNaN(v))
valuesOf(rows, idx, col) ==
    LET nums == [j \in 1..Len(idx) |-> Number(rows[idx[j]][col])]
        kept == SelectSeq(nums, LAMBDA v : ~isNaN(v)) IN
    [j \in 1..Len(kept) |-> kept[j].n]

\* the output row of a group: the key split back into the groupBy columns,
\* and the aggregate of column x
aggregated(rows, groupBy, func, g) ==
    [keys |-> [i \in 1..Len(groupBy) |-> split(g.key)[i]],
     x |-> reduce(func, valuesOf(rows, g.rows, "x"))]

(* the inputs *)
Funcs == {"sum", "mean", "count", "min", "max"}

GroupBys == {<<"g">>, <<"g", "h">>}

Row(g, h, x) == [g |-> g, h |-> h, x |-> x]

a_ == <<"a">>

GVals == {Str(a_), Str(<<"a","|","b">>), Num(1), Str(<<"1">>), Null,
          Str(NoText)}

HVals == {Str(<<"c">>), Str(<<"b","|","c">>)}

XVals == {Num(5), Num(0), Str(<<"7">>), Str(<<"a","b","c">>), Str(NoText),
          Null, Undef, Bool(TRUE)}

RowPool ==
    {Row(g, h, Num(5)) : g \in GVals, h \in HVals}
        \cup {Row(Str(a_), Str(<<"c">>), x) : x \in XVals}

\* a new DataProcessor whose loadData() has read the rows of a file
LoadData ==
    /\ agpc = "idle"
    /\ \E rows \in SeqsUpTo(RowPool, MaxRows) : data' = rows
    /\ agpc' = "loaded"
    /\ UNCHANGED <<aggArgs, groups, aggResult>>
    /\ UNCHANGED notAgg

\* aggregateData(groupBy, {x: func}) on loaded rows
AggregateData ==
    /\ agpc = "loaded"
    /\ data # << >>
    /\ \E groupBy \in GroupBys, func \in Funcs :
          LET gs == groupRows(data, groupBy, 1, << >>) IN
          /\ aggArgs' = [groupBy |-> groupBy, func |-> func]
          /\ groups' = gs
          /\ aggResult' = [g \in 1..Len(gs) |->
                              aggregated(data, groupBy, func, gs[g])]
    /\ agpc' = "aggregated"
    /\ UNCHANGED data
    /\ UNCHANGED notAgg

\* aggregateData on an empty data set throws
AggregateEmpty ==
    /\ agpc = "loaded"
    /\ data = << >>
    /\ agpc' = "thrown"
    /\ UNCHANGED <<data, aggArgs, groups, aggResult>>
    /\ UNCHANGED notAgg

NextAgg ==
    \/ LoadData
    \/ AggregateData
    \/ AggregateEmpty

SpecAgg == Init /\ [][NextAgg]_vars

(***************************************************************************)
(* validateIpAddress as a function of an IPv6 address                      *)
(***************************************************************************)
\* first 16-bit groups on both sides of every edge of fe80::/10, in both
\* letter cases, and a few far from it
FirstGroups ==
    {<<"f","e","8","0">>, <<"F","E","8","0">>, <<"F","e","8","0">>,
     <<"f","e","8","1">>, <<"f","e","8","f">>, <<"f","e","9","0">>,
     <<"F","E","9","0">>, <<"f","e","a","0">>, <<"f","e","A","F">>,
     <<"f","e","b","0">>, <<"f","e","b","f">>, <<"F","E","B","F">>,
     <<"f","e","c","0">>, <<"f","e","7","f">>, <<"f","e","0","0">>,
     <<"f","e","8">>, <<"f","c","0","0">>, <<"f","d","1","2">>,
     <<"2","0","0","1">>, <<"f","f","0","2">>}

\* what follows the first group
Rests ==
    {<<":",":">>, <<":",":","1">>, <<":",":","a",":","b">>,
     <<":","1",":",":","1">>, <<":",":","f","e","8","0",":","1">>,
     <<":","0",":","0",":","0",":","0",":","0",":","0",":","1">>}

Ip6Pool == {V6(g \o r) : g \in FirstGroups, r \in Rests}

\* validateIpAddress(ip) is called with an IPv6 address
ValidateIp6 ==
    /\ \E ip \in Ip6Pool :
          /\ ipArg' = ip
          /\ ipLinkLocal' = isLinkLocal(ip)
          /\ ipVerdict' = validateIpAddress(ip)
    /\ UNCHANGED notIp

\* validateIpAddress(ip) is called with an IPv4 address
ValidateIp4 ==
    /\ \E ip \in V4Hosts :
          /\ ipArg' = ip
          /\ ipLinkLocal' = isLinkLocal(ip)
          /\ ipVerdict' = validateIpAddress(ip)
    /\ UNCHANGED notIp

NextIp ==
    \/ ValidateIp6
    \/ ValidateIp4

SpecIp == Init /\ [][NextIp]_vars

(***************************************************************************)
(* rateLimited of examples/typescript/api-client.ts                        *)
(***************************************************************************)
\* the instances whose method is the decorated one
Instances == {1, 2}

\* minIntervalMs - timeSinceLastCall
sleepTime(m, currentTime, last) == m - (currentTime - last)

\* originalMethod.apply(this, args) is invoked by call c
startOriginal(c) ==
    /\ calls' = [calls EXCEPT ![c].pc = "running"]
    /\ starts' = Append(starts, now)

\* rateLimited(m) decorates the method
RateLimited ==
    /\ minIntervalMs = 0
    /\ \E m \in 1..MaxInterval : minIntervalMs' = m
    /\ lastCallTime' = 0
    /\ UNCHANGED <<now, calls, starts>>
    /\ UNCHANGED notRate

\* the decorated method is called on an instance: it runs up to its first
\* await, which is the timer or the original method
Invoke ==
    /\ minIntervalMs > 0
    /\ \E c \in 1..MaxCalls, inst \in Instances :
          /\ calls[c].pc = "new"
          /\ \A b \in 1..(c - 1) : calls[b].pc # "new"
          /\ IF now - lastCallTime < minIntervalMs
             THEN /\ calls' = [calls EXCEPT ![c] =
                        [pc |-> "sleeping", self |-> inst,
                         wake |-> now + sleepTime(minIntervalMs, now,
                                                  lastCallTime)]]
                  /\ starts' = starts
             ELSE /\ calls' = [calls EXCEPT ![c] =
                        [pc |-> "running", self |-> inst, wake |-> 0]]
                  /\ starts' = Append(starts, now)
    /\ UNCHANGED <<minIntervalMs, lastCallTime, now>>
    /\ UNCHANGED notRate

\* the timer of a waiting call fires and the call invokes the original
TimerFires ==
    /\ \E c \in 1..MaxCalls :
          /\ calls[c].pc = "sleeping"
          /\ now >= calls[c].wake
          /\ startOriginal(c)
    /\ UNCHANGED <<minIntervalMs, lastCallTime, now>>
    /\ UNCHANGED notRate

\* the original method returns: lastCallTime = Date.now()
OriginalReturns ==
    /\ \E c \in 1..MaxCalls :
          /\ calls[c].pc = "running"
          /\ calls' = [calls EXCEPT ![c].pc = "done"]
    /\ lastCallTime' = now
    /\ UNCHANGED <<minIntervalMs, now, starts>>
    /\ UNCHANGED notRate

\* the original method throws: the wrapper rejects before the assignment
OriginalThrows ==
    /\ \E c \in 1..MaxCalls :
          /\ calls[c].pc = "running"
          /\ calls' = [calls EXCEPT ![c].pc = "thrown"]
    /\ UNCHANGED <<minIntervalMs, lastCallTime, now, starts>>
    /\ UNCHANGED notRate

\* a millisecond passes
Tick ==
    /\ minIntervalMs > 0
    /\ now < Epoch + MaxTicks
    /\ now' = now + 1
    /\ UNCHANGED <<minIntervalMs, lastCallTime, calls, starts>>
    /\ UNCHANGED notRate

NextRate ==
    \/ RateLimited
    \/ Invoke
    \/ TimerFires
    \/ OriginalReturns
    \/ OriginalThrows
    \/ Tick

SpecRate == Init /\ [][NextRate]_vars

(***************************************************************************)
(* Repeated evaluations: the scraper as above on a few URLs and answers,   *)
(* with one earlier validateUrl evaluation remembered for comparison       *)
(***************************************************************************)
DetUrls ==
    {NotAUrl, Url(http_, Name(localhost_)), Url(http_, Name(publicName_)),
     Url(http_, MetadataAddress), Url(http_, PublicAddress),
     Url(https_, V6(loopback6_))}

DetAnswers(h) ==
    IF isIP(h) # 0 THEN Answers(h)
    ELSE {<<PublicAddress>>, <<V4(127, 0, 0, 1)>>,
          <<PublicAddress, MetadataAddress>>}

DetFetchPage == \E u \in DetUrls : FetchPage(u)

DetLookupResolves ==
    /\ pc = "lookup"
    /\ \E a \in DetAnswers(hostname) :
          LookupSettles([state |-> "resolved", addrs |-> a])

\* the evaluation that has just settled is kept as the one to compare with
Remember ==
    /\ ~memo.set
    /\ phase # "none"
    /\ verdict # PENDING
    /\ memo' = [set |-> TRUE, ph |-> phase, u |-> vurl, d |-> dns,
                v |-> verdict]
    /\ UNCHANGED notMemo

NextDet ==
    \/ DetFetchPage
    \/ LookupFails
    \/ DetLookupResolves
    \/ Redirect
    \/ TooManyRedirects
    \/ RespondError
    \/ Respond
    \/ Return
    \/ Remember

SpecDet == Init /\ [][NextDet]_vars

(***************************************************************************)
(* Properties                                                              *)
(***************************************************************************)
Validated == phase # "none"

IsHttp(u) == toLowerCase(u.scheme) \in {http_, https_}

\* a string new URL() does not accept
Unparseable(u) ==
    \/ u.scheme = NoText
    \/ toLowerCase(u.scheme) \in {http_, https_, ftp_} /\ u.host.kind = "empty"

DenyReasons ==
    {INVALID_URL, DISALLOWED_SCHEME, MISSING_HOST, BLOCKED_HOSTNAME,
     CLOUD_METADATA_ENDPOINT, LOOPBACK, LINK_LOCAL, PRIVATE_RANGE}

\* C1: validateUrl returns normally only for a URL with scheme http or
\* https, a host that is not on the loopback-name denylist, and a DNS answer
\* all of whose addresses classify as PUBLIC; one unsafe address anywhere in
\* the answer makes it reject.
C1_AllowOnlyIfSafe ==
    verdict = ALLOW =>
        /\ IsHttp(vurl)
        /\ toLowerCase(vurl.host.text)
               \notin {localhost_, localhost_ \o localdomain_}
        /\ dns.state = "resolved" =>
               \A i \in 1..Len(dns.addrs) :
                   validateIpAddress(dns.addrs[i]) = PUBLIC

\* C2: every redirect target that the HTTP client sends a request to has
\* been ALLOWed by validateUrl before that request.
C2_RedirectTargetsValidatedFirst ==
    \A i \in 2..Len(requests) : requests[i] \in allowed

\* C3: the HTTP client is called for the URL given to fetchPage only after
\* validateUrl ALLOWed it; when validateUrl throws for the initial URL,
\* fetchPage throws and no request is made.
C3_RequestOnlyAfterAllow ==
    /\ requests # << >> => requests[1] = url /\ url \in allowed
    /\ phase = "initial" /\ verdict \notin {PENDING, ALLOW} =>
           outcome = "thrown" /\ requests = << >>

C3_Witness ==
    /\ phase = "initial"
    /\ verdict = BLOCKED_HOSTNAME
    /\ outcome = "thrown"
    /\ requests = << >>

\* C4: a parseable URL whose scheme, in lower case, is neither http nor
\* https is rejected as DISALLOWED_SCHEME; a URL whose scheme is http or
\* https in any letter case is never rejected as DISALLOWED_SCHEME.
C4_SchemeGate ==
    Validated =>
        /\ ~Unparseable(vurl) /\ ~IsHttp(vurl) => verdict = DISALLOWED_SCHEME
        /\ IsHttp(vurl) => verdict # DISALLOWED_SCHEME

C4_Witness ==
    /\ Validated
    /\ vurl.scheme = <<"F","T","P">>
    /\ vurl.host.kind = "name"
    /\ verdict = DISALLOWED_SCHEME

\* C5: an http/https URL whose host is localhost or localhost.localdomain
\* in any letter case is rejected as BLOCKED_HOSTNAME, before any lookup.
C5_LocalhostBlocked ==
    (/\ Validated
     /\ IsHttp(vurl)
     /\ vurl.host.kind = "name"
     /\ toLowerCase(vurl.host.text)
            \in {localhost_, localhost_ \o localdomain_})
        => verdict = BLOCKED_HOSTNAME /\ dns.state = "none"

C5_Witness ==
    /\ Validated
    /\ IsHttp(vurl)
    /\ vurl.host.kind = "name"
    /\ vurl.host.text # toLowerCase(vurl.host.text)
    /\ toLowerCase(vurl.host.text) = localhost_ \o localdomain_
    /\ verdict = BLOCKED_HOSTNAME

\* C6: an http/https URL whose host is the IPv4 literal a.b.c.d is rejected
\* as LOOPBACK when a = 127, as LINK_LOCAL when a.b = 169.254 (the metadata
\* address apart), as PRIVATE_RANGE in 10/8, 172.16/12 and 192.168/16, each
\* before any lookup, and is not rejected for its address otherwise.
C6_LiteralIPv4 ==
    (Validated /\ IsHttp(vurl) /\ vurl.host.kind = "v4") =>
        LET a == vurl.host.parts[1]
            b == vurl.host.parts[2] IN
        CASE a = 127 -> verdict = LOOPBACK /\ dns.state = "none"
          [] vurl.host.parts = <<169, 254, 169, 254>> -> TRUE
          [] a = 169 /\ b = 254 -> verdict = LINK_LOCAL /\ dns.state = "none"
          [] \/ a = 10
             \/ a = 172 /\ 16 <= b /\ b <= 31
             \/ a = 192 /\ b = 168 ->
                 verdict = PRIVATE_RANGE /\ dns.state = "none"
          [] OTHER -> verdict \notin AddressReasons

C6_Witness ==
    /\ Validated
    /\ vurl = Url(http_, V4(172, 31, 0, 1))
    /\ verdict = PRIVATE_RANGE

\* C7: an http/https URL whose host is the IPv6 literal ::1 is rejected as
\* LOOPBACK, whether the lookup succeeds or fails.
C7_LiteralIPv6Loopback ==
    (/\ Validated
     /\ IsHttp(vurl)
     /\ vurl.host = V6(loopback6_)
     /\ verdict # PENDING)
        => verdict = LOOPBACK

\* C8: 169.254.169.254 is always rejected as CLOUD_METADATA_ENDPOINT, never
\* as LINK_LOCAL; every other address of 169.254.0.0/16 is rejected as
\* LINK_LOCAL.
C8_MetadataBeforeLinkLocal ==
    /\ (/\ Validated
        /\ IsHttp(vurl)
        /\ vurl.host.kind = "v4"
        /\ vurl.host.parts[1] = 169
        /\ vurl.host.parts[2] = 254)
           => verdict = IF vurl.host.parts = <<169, 254, 169, 254>>
                        THEN CLOUD_METADATA_ENDPOINT ELSE LINK_LOCAL
    /\ \A i \in 1..Len(dns.addrs) :
          LET ip == dns.addrs[i] IN
          (ip.kind = "v4" /\ ip.parts[1] = 169 /\ ip.parts[2] = 254) =>
              validateIpAddress(ip) = IF ip.parts = <<169, 254, 169, 254>>
                                      THEN CLOUD_METADATA_ENDPOINT
                                      ELSE LINK_LOCAL

C8_Witness ==
    /\ Validated
    /\ vurl.host.parts = <<169, 254, 169, 254>>
    /\ verdict = CLOUD_METADATA_ENDPOINT

\* C9: when the lookup fails for a URL that passed every earlier check,
\* validateUrl ALLOWs the URL.
C9_DnsFailureAllows ==
    dns.state = "failed" => verdict = ALLOW

C9_Witness ==
    /\ dns.state = "failed"
    /\ vurl.host.kind = "name"
    /\ "denylist" \in checks
    /\ verdict = ALLOW

\* C10: a string that does not parse as a URL is rejected as INVALID_URL
\* with no scheme check, no hostname check and no lookup; validateUrl never
\* settles with anything but ALLOW or one of its DENY reasons.
C10_UnparseableRejected ==
    /\ Validated /\ Unparseable(vurl) =>
           /\ verdict = INVALID_URL
           /\ checks = {"parse"}
           /\ dns.state = "none"
    /\ verdict \in {PENDING, ALLOW} \cup DenyReasons

C10_Witness ==
    /\ phase = "initial"
    /\ vurl = NotAUrl
    /\ verdict = INVALID_URL
    /\ checks = {"parse"}

\* the same resolver behaviour: the same result of lookup(), or one of the
\* two evaluations settled without asking
SameAnswers(d1, d2) == d1.state = "none" \/ d2.state = "none" \/ d1 = d2

Progress == 2 * attempt + (IF apc = "sleep" THEN 1 ELSE 0)

\* a step of a running call ends it or advances it, within maxRetries
\* attempts
StepAdvances ==
    apc \in {"await", "sleep"} =>
        \/ apc' = "done"
        \/ /\ apc' \in {"await", "sleep"}
           /\ Progress' = Progress + 1
           /\ Progress' < 2 * maxRetries

AttemptsBounded ==
    /\ sent <= maxRetries
    /\ inflight \in {0, 1}
    /\ (inflight = 1 <=> apc = "await")
    /\ Len(attempts) <= maxRetries

\* C12: makeRequest issues at most maxRetries requests, never two at a
\* time, and every step of a running call either ends it or brings it
\* nearer to the end of its at most maxRetries attempts.
C12_BoundedAttempts == []AttemptsBounded /\ [][StepAdvances]_vars

C12_Witness ==
    /\ apc = "done"
    /\ maxRetries = 3
    /\ sent = 3
    /\ Len(attempts) = 3
    /\ result.kind = "thrown"

\* an attempt that ended with a response of status below 500
EndedBelow500(a) == a.has /\ a.status < 500

\* C13: an attempt that yields a status below 500 is the last one, with no
\* request and no wait after it; an attempt that yields a status of 500 or
\* more, or no response, is followed by another attempt while fewer than
\* maxRetries attempts have been made.
C13_RetryOnlyServerErrors ==
    /\ \A i \in 1..Len(attempts) :
          EndedBelow500(attempts[i]) =>
              /\ i = Len(attempts)
              /\ apc = "done"
              /\ sent = i
              /\ Len(waits) = i - 1
    /\ (/\ apc = "done"
        /\ attempts # << >>
        /\ ~EndedBelow500(attempts[Len(attempts)]))
           => Len(attempts) = maxRetries
    /\ apc = "sleep" => ~EndedBelow500(attempts[Len(attempts)])

C13_Witness ==
    /\ apc = "done"
    /\ maxRetries = 3
    /\ Len(attempts) = 2
    /\ ~attempts[1].has
    /\ attempts[2].has /\ attempts[2].status = 404

\* C14: the i-th wait of a call is 2^(i-1) seconds; one wait lies between
\* two consecutive attempts and none follows the last attempt.
C14_ExponentialBackoff ==
    /\ \A i \in 1..Len(waits) : waits[i] = (2 ^ (i - 1)) * 1000
    /\ apc = "await" => Len(waits) = sent - 1
    /\ apc = "sleep" => Len(waits) = sent /\ sent = Len(attempts)
    /\ apc = "done" /\ sent > 0 => Len(waits) = sent - 1

C14_Witness ==
    /\ apc = "done"
    /\ sent = 3
    /\ waits = <<1000, 2000>>

\* every attempt of the call ended with a status of 500 or more or with no
\* response
AllAttemptsFailed ==
    /\ apc = "done"
    /\ maxRetries > 0
    /\ Len(attempts) = maxRetries
    /\ \A i \in 1..Len(attempts) : ~EndedBelow500(attempts[i])

\* C15: when all maxRetries attempts failed, the APIError thrown reports
\* the last attempt: its transport error or, when that attempt produced a
\* response, the status of that response; never an earlier attempt.
C15_LastOutcomeSurfaced ==
    AllAttemptsFailed =>
        /\ result.kind = "thrown"
        /\ result.about = maxRetries
        /\ attempts[maxRetries].has =>
               result.statusCode = attempts[maxRetries].status

(***************************************************************************)
(* DataProcessor.aggregateData                                             *)
(***************************************************************************)
\* a cell that holds a number: a number, or a string of decimal digits
IsNumeric(v) ==
    \/ v.t = "num"
    \/ v.t = "str" /\ v.s # << >> /\ \A i \in 1..Len(v.s) : IsDigit(v.s[i])

\* the numbers among the cells of column col in the rows idx
NumbersOf(rows, idx, col) ==
    LET cells == [j \in 1..Len(idx) |-> rows[idx[j]][col]]
        kept == SelectSeq(cells, IsNumeric) IN
    [j \in 1..Len(kept) |->
        IF kept[j].t = "num" THEN kept[j].n ELSE DecVal(kept[j].s)]

\* C16: the aggregate of a group is the aggregate of the numbers in the
\* aggregated column of its rows; a cell that is not a number (a non-numeric
\* string, null, undefined, the empty string, a boolean) is left out and not
\* counted.
C16_NonNumbersExcluded ==
    agpc = "aggregated" =>
        \A g \in 1..Len(groups) :
            aggResult[g].x =
                reduce(aggArgs.func, NumbersOf(data, groups[g].rows, "x"))

\* rows i and j have the same value in every groupBy column
SameCombination(i, j) ==
    \A c \in 1..Len(aggArgs.groupBy) :
        data[i][aggArgs.groupBy[c]] = data[j][aggArgs.groupBy[c]]

\* the group a row was put in
GroupOf(i) ==
    CHOOSE g \in 1..Len(groups) :
        \E k \in 1..Len(groups[g].rows) : groups[g].rows[k] = i

\* the text of a cell, as an output row shows it
Shown(v) ==
    CASE v.t = "num" -> DecText(v.n)
      [] v.t = "str" -> v.s
      [] v.t = "bool" -> IF v.n = 1 THEN <<"t","r","u","e">>
                         ELSE <<"f","a","l","s","e">>
      [] OTHER -> NoText

\* C17: aggregateData partitions the rows by their groupBy values: two rows
\* are in one group exactly when they agree in every groupBy column, there is
\* one output row per distinct combination, and the output row of a group
\* carries the group's values in the groupBy columns.
C17_PartitionByGroupValues ==
    agpc = "aggregated" =>
        /\ \A i, j \in 1..Len(data) :
              (GroupOf(i) = GroupOf(j)) <=> SameCombination(i, j)
        /\ Len(aggResult) =
              Cardinality({[c \in 1..Len(aggArgs.groupBy) |->
                               data[i][aggArgs.groupBy[c]]] :
                           i \in 1..Len(data)})
        /\ \A g \in 1..Len(groups) :
              \A c \in 1..Len(aggArgs.groupBy) :
                 aggResult[g].keys[c] =
                    Shown(data[groups[g].rows[1]][aggArgs.groupBy[c]])

(***************************************************************************)
(* validateUrl: literal hosts, order of the checks, fe80::/10              *)
(***************************************************************************)
\* C18: when the host of an http/https URL is a literal IPv4 or IPv6
\* address, validateUrl classifies that address directly and asks no
\* resolver during the evaluation.
C18_LiteralClassifiedWithoutLookup ==
    (Validated /\ IsHttp(vurl) /\ vurl.host.kind \in {"v4", "v6"}) =>
        /\ "literal" \in checks
        /\ "dns" \in checks => isIP(hostname) # 0
        /\ dns.state # "failed"

\* the order of the checks
CheckOrder == <<"parse", "scheme", "host", "denylist", "literal">>

\* the IPv4 literals that address classification denies
DeniedV4(h) ==
    /\ h.kind = "v4"
    /\ \/ h.parts[1] = 127
       \/ h.parts[1] = 169 /\ h.parts[2] = 254
       \/ h.parts[1] = 10
       \/ h.parts[1] = 172 /\ 16 <= h.parts[2] /\ h.parts[2] <= 31
       \/ h.parts[1] = 192 /\ h.parts[2] = 168

\* the URL fails the k-th check
Fails(k, u) ==
    CASE k = 1 -> Unparseable(u)
      [] k = 2 -> ~IsHttp(u)
      [] k = 3 -> u.host.kind = "empty"
      [] k = 4 -> toLowerCase(u.host.text)
                      \in {localhost_, localhost_ \o localdomain_}
      [] k = 5 -> DeniedV4(u.host)

\* the reasons the k-th check rejects with
ReasonsOf(k) ==
    CASE k = 1 -> {INVALID_URL}
      [] k = 2 -> {DISALLOWED_SCHEME}
      [] k = 3 -> {MISSING_HOST}
      [] k = 4 -> {BLOCKED_HOSTNAME}
      [] k = 5 -> AddressReasons

FirstGroupOf(ip) == parseHexFrom(ip.text, 1, 0)

\* the address lies in fe80::/10: its first group is fe80 through febf
InLinkLocalPrefix(ip) ==
    /\ ip.kind = "v6"
    /\ 65152 <= FirstGroupOf(ip)
    /\ FirstGroupOf(ip) <= 65215

\* C20: every IPv6 address in fe80::/10, in any letter case, is classified
\* as link-local and rejected as LINK_LOCAL, and no IPv6 address outside
\* the prefix is classified as link-local.
C20_LinkLocalPrefix ==
    ipArg.kind = "v6" =>
        /\ ipLinkLocal <=> InLinkLocalPrefix(ipArg)
        /\ InLinkLocalPrefix(ipArg) => ipVerdict = LINK_LOCAL

(***************************************************************************)
(* APIClient.makeRequest: what it returns                                  *)
(***************************************************************************)
\* C22: makeRequest returns an APIResponse only for a 2xx response, with
\* success = true and 200 <= statusCode < 300; every other way a call ends
\* (another status, a transport error, no request made because maxRetries
\* is 0) is a thrown APIError.
C22_ReturnsOnlySuccess ==
    /\ result.kind = "returned" =>
          /\ result.success
          /\ 200 <= result.statusCode
          /\ result.statusCode < 300
          /\ response.has
          /\ response.status = result.statusCode
    /\ (/\ apc = "done"
        /\ ~(response.has /\ 200 <= response.status /\ response.status < 300))
           => result.kind = "thrown"
    /\ (apc = "done" /\ maxRetries = 0) => result.kind = "thrown" /\ sent = 0

C22_Witness ==
    /\ apc = "done"
    /\ acceptAll
    /\ response.has
    /\ response.status = 404
    /\ result.kind = "thrown"
    /\ result.statusCode = 404

(***************************************************************************)
(* rateLimited                                                             *)
(***************************************************************************)
\* C21: any two invocations of the original method of a method wrapped by
\* rateLimited(minIntervalMs) start at least minIntervalMs apart, whatever
\* the interleaving of the calls, the instances they are made on, and
\* whether an earlier invocation threw.
C21_InvocationsSpaced ==
    \A i, j \in 1..Len(starts) :
        i < j => starts[j] - starts[i] >= minIntervalMs

====
